---------------------------- MODULE Spec2Model ----------------------------
(***************************************************************************)
(* HEVC SPS decoding (hevc/sps.go): ParseSPSNALUnit, parseVUI,             *)
(* parseBitstreamRestrictions, parseShortTermRPS, readPastScalingListData  *)
(* and SPS.ImageSize, over the accumulated-error bit reader of package     *)
(* bits.  The reader, the NAL unit type lookup and the sample aspect ratio *)
(* lookup live in other packages; they are modelled from their contracts.  *)
(*                                                                         *)
(* A Go byte / uint16 value is a natural reduced modulo 2^8 / 2^16.  A Go  *)
(* uint32 is kept as two 16-bit limbs [hi, lo] so that arithmetic modulo   *)
(* 2^32 is exact.  A Go pointer that may be nil is a sequence of length 0  *)
(* (nil) or 1.  An error value is a string, "nil" when there is none.      *)
(***************************************************************************)
EXTENDS Integers, Sequences, FiniteSets, TLC

VARIABLES
    r,        \* the bits.AccErrEBSPReader: [buf, pos, err]
    sps,      \* the *SPS record being filled by ParseSPSNALUnit
    pc,       \* position of the running function
    idx,      \* loop variable idx of the short-term RPS loop / argument idx
    numST,    \* argument numSTRefPicSets of a direct parseShortTermRPS call
    ret,      \* what the call returned: [sps, err, stps, size, refIdx]
    panicked, \* a Go run-time panic (index out of range) unwound the call
    scen      \* the syntax elements the input bytes were written from

vars == <<r, sps, pc, idx, numST, ret, panicked, scen>>

-----------------------------------------------------------------------------
(* Go integer conversions *)

Pow2(n) == 2 ^ n

Byte(x) == x % 256

Uint16(x) == x % 65536

ToU32(x) == [hi |-> (x \div 65536) % 65536, lo |-> x % 65536]

Add32(a, b) ==
    LET lo == a.lo + b.lo
    IN  [hi |-> (a.hi + b.hi + (lo \div 65536)) % 65536, lo |-> lo % 65536]

Sub32(a, b) ==
    LET borrow == IF a.lo < b.lo THEN 1 ELSE 0
    IN  [hi |-> (a.hi - b.hi - borrow + 2 * 65536) % 65536,
         lo |-> (a.lo - b.lo + 65536) % 65536]

\* uint32 product with a small factor k (the sub-sampling factor, 1 or 2)
Mul32(a, k) ==
    LET lo == a.lo * k
    IN  [hi |-> (a.hi * k + (lo \div 65536)) % 65536, lo |-> lo % 65536]

-----------------------------------------------------------------------------
(* Sequencing *)

\* "x := e" followed by the statements after it, written
\* Bind([x \in {e} |-> statements]): e is evaluated once, before the
\* statements that follow, which see its value as x
Bind(f) == f[CHOOSE x \in DOMAIN f : TRUE]

-----------------------------------------------------------------------------
(* The bit cursor (package bits, AccErrEBSPReader) *)

MaxLeadingZeroBits == 32

NewReader(data) == [buf |-> data, pos |-> 0, err |-> "nil"]

\* number of bits in the buffer
NBits(buf) == 8 * Len(buf)

\* bit i of the buffer (from 0), most significant bit of a byte first
BitAt(buf, i) == (buf[(i \div 8) + 1] \div Pow2(7 - (i % 8))) % 2

RECURSIVE BitsVal(_, _, _)
BitsVal(buf, pos, n) ==
    IF n = 0 THEN 0 ELSE 2 * BitsVal(buf, pos, n - 1) + BitAt(buf, pos + n - 1)

\* r.Read(n): the next n bits, most significant first
Read(rd, n) ==
    IF rd.err # "nil" THEN [r |-> rd, v |-> 0]
    ELSE IF rd.pos + n > NBits(rd.buf)
         THEN [r |-> [rd EXCEPT !.err = "Truncated"], v |-> 0]
         ELSE [r |-> [rd EXCEPT !.pos = rd.pos + n], v |-> BitsVal(rd.buf, rd.pos, n)]

\* r.ReadFlag()
ReadFlag(rd) ==
    Bind([x \in {Read(rd, 1)} |-> [r |-> x.r, v |-> (x.v # 0)]])

\* number of zero bits before the next 1 bit; -1: the buffer ends first,
\* -2: more than MaxLeadingZeroBits zero bits
RECURSIVE LeadingZeroBits(_, _, _)
LeadingZeroBits(buf, pos, k) ==
    IF k > MaxLeadingZeroBits THEN -2
    ELSE IF pos + k + 1 > NBits(buf) THEN -1
    ELSE IF BitAt(buf, pos + k) = 1 THEN k
    ELSE LeadingZeroBits(buf, pos, k + 1)

\* r.ReadExpGolomb()
ReadExpGolomb(rd) ==
    IF rd.err # "nil" THEN [r |-> rd, v |-> 0]
    ELSE Bind([k \in {LeadingZeroBits(rd.buf, rd.pos, 0)} |->
             IF k = -2 THEN [r |-> [rd EXCEPT !.err = "Malformed"], v |-> 0]
             ELSE IF k = -1 \/ rd.pos + 2 * k + 1 > NBits(rd.buf)
                  THEN [r |-> [rd EXCEPT !.err = "Truncated"], v |-> 0]
                  ELSE [r |-> [rd EXCEPT !.pos = rd.pos + 2 * k + 1],
                        v |-> Pow2(k) - 1 + BitsVal(rd.buf, rd.pos + k + 1, k)]])

\* r.SetError(err): latches err unless an error is latched already
SetError(rd, e) == IF rd.err = "nil" THEN [rd EXCEPT !.err = e] ELSE rd

\* r.AccError()
AccError(rd) == rd.err

\* a read under a condition: "if c { x = r.Read...() }", x zero otherwise
ReadIf(c, rd, n) == IF c THEN Read(rd, n) ELSE [r |-> rd, v |-> 0]

ReadFlagIf(c, rd) == IF c THEN ReadFlag(rd) ELSE [r |-> rd, v |-> FALSE]

ReadExpGolombIf(c, rd) == IF c THEN ReadExpGolomb(rd) ELSE [r |-> rd, v |-> 0]

SetErrorIf(c, rd, e) == IF c THEN SetError(rd, e) ELSE rd

-----------------------------------------------------------------------------
(* Collaborators from other packages *)

NALU_SPS == 33

\* hevc.GetNaluType: the 6 type bits that follow the forbidden-zero bit
GetNaluType(b) == (b \div 2) % 64

ExtendedSAR == 255

\* the 16 sample aspect ratios a lookup by IDC knows (IDC 1..16)
SARTable ==
    << <<1, 1>>, <<12, 11>>, <<10, 11>>, <<16, 11>>, <<40, 33>>, <<24, 11>>,
       <<20, 11>>, <<32, 11>>, <<80, 33>>, <<18, 11>>, <<15, 11>>, <<64, 33>>,
       <<160, 99>>, <<4, 3>>, <<3, 2>>, <<2, 1>> >>

\* avc.GetSARfromIDC: (width, height, err)
GetSARfromIDC(idc) ==
    IF idc \in DOMAIN SARTable
    THEN [w |-> SARTable[idc][1], h |-> SARTable[idc][2], err |-> "nil"]
    ELSE [w |-> 0, h |-> 0, err |-> "UnknownAspectRatioIDC"]

-----------------------------------------------------------------------------
(* The records of sps.go, at their Go zero values *)

U32Zero == [hi |-> 0, lo |-> 0]

NewProfileTierLevel ==
    [GeneralProfileSpace |-> 0, GeneralTierFlag |-> FALSE, GeneralProfileIDC |-> 0,
     GeneralProfileCompatibilityFlags |-> 0, GeneralConstraintIndicatorFlags |-> 0,
     GeneralLevelIDC |-> 0]

NewConformanceWindow ==
    [LeftOffset |-> U32Zero, RightOffset |-> U32Zero,
     TopOffset |-> U32Zero, BottomOffset |-> U32Zero]

NewSPS ==
    [VpsID |-> 0, MaxSubLayersMinus1 |-> 0, TemporalIDNestingFlag |-> FALSE,
     ProfileTierLevel |-> NewProfileTierLevel,
     SpsID |-> 0, ChromaFormatIDC |-> 0, SeparateColourPlaneFlag |-> FALSE,
     ConformanceWindowFlag |-> FALSE,
     PicWidthInLumaSamples |-> U32Zero, PicHeightInLumaSamples |-> U32Zero,
     ConformanceWindow |-> NewConformanceWindow,
     BitDepthLumaMinus8 |-> 0, BitDepthChromaMinus8 |-> 0,
     Log2MaxPicOrderCntLsbMinus4 |-> 0,
     SubLayerOrderingInfoPresentFlag |-> FALSE, SubLayeringOrderingInfos |-> << >>,
     Log2MinLumaCodingBlockSizeMinus3 |-> 0, Log2DiffMaxMinLumaCodingBlockSize |-> 0,
     Log2MinLumaTransformBlockSizeMinus2 |-> 0,
     Log2DiffMaxMinLumaTransformBlockSize |-> 0,
     MaxTransformHierarchyDepthInter |-> 0, MaxTransformHierarchyDepthIntra |-> 0,
     ScalingListEnabledFlag |-> FALSE, ScalingListDataPresentFlag |-> FALSE,
     AmpEnabledFlag |-> FALSE, SampleAdaptiveOffsetEnabledFlag |-> FALSE,
     PCMEnabledFlag |-> FALSE,
     PcmSampleBitDepthLumaMinus1 |-> 0, PcmSampleBitDepthChromaMinus1 |-> 0,
     Log2MinPcmLumaCodingBlockSize |-> 0, Log2DiffMaxMinPcmLumaCodingBlockSize |-> 0,
     PcmLoopFilterDisabledFlag |-> FALSE,
     NumShortTermRefPicSets |-> 0, ShortTermRefPicSets |-> << >>,
     LongTermRefPicsPresentFlag |-> FALSE, SpsTemporalMvpEnabledFlag |-> FALSE,
     StrongIntraSmoothingEnabledFlag |-> FALSE, VUIParametersPresentFlag |-> FALSE,
     VUI |-> << >>]

NewVUIParameters ==
    [SampleAspectRatioWidth |-> 0, SampleAspectRatioHeight |-> 0,
     OverscanInfoPresentFlag |-> FALSE, OverscanAppropriateFlag |-> FALSE,
     VideoSignalTypePresentFlag |-> FALSE, VideoFormat |-> 0,
     VideoFullRangeFlag |-> FALSE, ColourDescriptionFlag |-> FALSE,
     ColourPrimaries |-> 0, TransferCharacteristics |-> 0, MatrixCoefficients |-> 0,
     ChromaLocInfoPresentFlag |-> FALSE,
     ChromaSampleLocTypeTopField |-> 0, ChromaSampleLocTypeBottomField |-> 0,
     NeutralChromaIndicationFlag |-> FALSE, FieldSeqFlag |-> FALSE,
     FrameFieldInfoPresentFlag |-> FALSE, DefaultDisplayWindowFlag |-> FALSE,
     DefDispWinLeftOffset |-> 0, DefDispWinRightOffset |-> 0,
     DefDispWinTopOffset |-> 0, DefDispWinBottomOffset |-> 0,
     TimingInfoPresentFlag |-> FALSE, NumUnitsInTick |-> 0, TimeScale |-> 0,
     PocProportionalToTimingFlag |-> FALSE, NumTicksPocDiffOneMinus1 |-> 0,
     HrdParametersPresentFlag |-> FALSE, BitstreamRestrictionFlag |-> FALSE,
     BitstreamResctrictions |-> << >>]

NewShortTermRPS ==
    [DeltaPocS0 |-> << >>, DeltaPocS1 |-> << >>,
     UsedByCurrPicS0 |-> << >>, UsedByCurrPicS1 |-> << >>,
     NumNegativePics |-> 0, NumPositivePics |-> 0, NumDeltaPocs |-> 0]

maxSTRefPics == 16

-----------------------------------------------------------------------------
(* readPastScalingListData *)

\* line 431 takes the method value r.ReadExpGolomb and does not call it:
\* the reader is left as it is
ReadDcCoef(rd) == rd

ReadDcCoefIf(c, rd) == IF c THEN ReadDcCoef(rd) ELSE rd

\* lines 416-419
NrMatrixIds(sizeId) == IF sizeId = 3 THEN 2 ELSE 6

\* lines 426-429
CoefNum(sizeId) ==
    Bind([n \in {Pow2(4 + 2 * sizeId)} |-> IF n > 64 THEN 64 ELSE n])

\* lines 434-438: n values read and dropped
RECURSIVE ReadCoefs(_, _)
ReadCoefs(rd, n) ==
    IF n = 0 THEN rd
    ELSE Bind([x \in {ReadExpGolomb(rd)} |-> ReadCoefs(x.r, n - 1)])

\* lines 421-439: the body of the matrixId loop
ReadScalingMatrix(rd, sizeId) ==
    Bind([flag \in {ReadFlag(rd)} |->
        IF ~flag.v THEN ReadExpGolomb(flag.r).r
        ELSE ReadCoefs(ReadDcCoefIf(sizeId > 1, flag.r), CoefNum(sizeId))])

\* line 420
RECURSIVE ReadScalingMatrices(_, _, _)
ReadScalingMatrices(rd, sizeId, matrixId) ==
    IF matrixId >= NrMatrixIds(sizeId) THEN rd
    ELSE ReadScalingMatrices(ReadScalingMatrix(rd, sizeId), sizeId, matrixId + 1)

\* line 415
RECURSIVE ReadScalingSizes(_, _)
ReadScalingSizes(rd, sizeId) ==
    IF sizeId >= 4 THEN rd
    ELSE ReadScalingSizes(ReadScalingMatrices(rd, sizeId, 0), sizeId + 1)

readPastScalingListData(rd) == ReadScalingSizes(rd, 0)

readPastScalingListDataIf(c, rd) == IF c THEN readPastScalingListData(rd) ELSE rd

-----------------------------------------------------------------------------
(* parseShortTermRPS *)

\* line 391 with the test on the positive count left out
TooManyPicsNegativeOnly(neg, pos) == neg > maxSTRefPics

\* line 391: the bound on the two picture counts
TooManyPics(neg, pos) == neg > maxSTRefPics \/ pos > maxSTRefPics

\* line 376 with the entry before the referenced one taken
RefIdxOffByOne(i, deltaIdx) == Byte(i - (deltaIdx + 1) + 256)

\* line 376: refIdx := idx - deltaIdx, in byte arithmetic
RefIdx(i, deltaIdx) == Byte(i - deltaIdx + 256)

\* lines 378-387: the loop over the referenced entry's delta POCs;
\* n is stps.NumDeltaPocs so far
RECURSIVE ReadInterFlags(_, _, _)
ReadInterFlags(rd, j, n) ==
    IF j = 0 THEN [r |-> rd, n |-> n]
    ELSE Bind([usedByCurrPicFlag \in {ReadFlag(rd)} |->
         Bind([useDeltaFlag \in {ReadFlagIf(~usedByCurrPicFlag.v, usedByCurrPicFlag.r)} |->
             ReadInterFlags(useDeltaFlag.r, j - 1,
                 IF usedByCurrPicFlag.v \/ useDeltaFlag.v THEN Byte(n + 1) ELSE n)])])

\* lines 398-401 and 404-407: n pairs of (delta POC minus 1, used flag)
RECURSIVE ReadDeltaPocs(_, _, _, _)
ReadDeltaPocs(rd, n, pocs, used) ==
    IF n = 0 THEN [r |-> rd, pocs |-> pocs, used |-> used]
    ELSE Bind([d \in {ReadExpGolomb(rd)} |->
         Bind([u \in {ReadFlag(d.r)} |->
             ReadDeltaPocs(u.r, n - 1, Append(pocs, d.v + 1), Append(used, u.v))])])

\* lines 377-387, once refIdx is known
ReadReferenced(rd, refIdx, s) ==
    IF refIdx >= Len(s.ShortTermRefPicSets)
    THEN [r |-> rd, stps |-> NewShortTermRPS, panic |-> TRUE, refIdx |-> refIdx]
    ELSE Bind([f \in {ReadInterFlags(rd, s.ShortTermRefPicSets[refIdx + 1].NumDeltaPocs, 0)} |->
             [r |-> f.r, stps |-> [NewShortTermRPS EXCEPT !.NumDeltaPocs = f.n],
              panic |-> FALSE, refIdx |-> refIdx]])

\* lines 364-387; deltaIdx is 1 unless idx == numSTRefPicSets, where it is read
ParseInterRPS(rd, i, numSTRefPicSets, s) ==
    Bind([deltaIdxMinus1 \in {ReadExpGolombIf(i = numSTRefPicSets, rd)} |->
    Bind([deltaIdx \in {Byte(deltaIdxMinus1.v + 1)} |->
    Bind([chk \in {SetErrorIf(deltaIdx > i, deltaIdxMinus1.r, "Malformed")} |->
    Bind([deltaRpsSign \in {Read(chk, 1)} |->
    Bind([absDeltaRpsMinus1 \in {ReadExpGolomb(deltaRpsSign.r)} |->
        ReadReferenced(absDeltaRpsMinus1.r, RefIdx(i, deltaIdx), s)])])])])])

\* lines 395-407
ReadExplicitPocs(rd, counts) ==
    Bind([s0 \in {ReadDeltaPocs(rd, counts.NumNegativePics, << >>, << >>)} |->
    Bind([s1 \in {ReadDeltaPocs(s0.r, counts.NumPositivePics, << >>, << >>)} |->
        [r |-> s1.r,
         stps |-> [counts EXCEPT
             !.NumDeltaPocs = Byte(counts.NumNegativePics + counts.NumPositivePics),
             !.DeltaPocS0 = s0.pocs, !.UsedByCurrPicS0 = s0.used,
             !.DeltaPocS1 = s1.pocs, !.UsedByCurrPicS1 = s1.used],
         panic |-> FALSE, refIdx |-> -1]])])

\* lines 388-408
ParseExplicitRPS(rd) ==
    Bind([neg \in {ReadExpGolomb(rd)} |->
    Bind([pos \in {ReadExpGolomb(neg.r)} |->
    Bind([counts \in {[NewShortTermRPS EXCEPT !.NumNegativePics = Byte(neg.v),
                                 !.NumPositivePics = Byte(pos.v)]} |->
        IF TooManyPics(counts.NumNegativePics, counts.NumPositivePics)
        THEN [r |-> SetError(pos.r, "TooManyReferencePictures"), stps |-> counts,
              panic |-> FALSE, refIdx |-> -1]
        ELSE ReadExplicitPocs(pos.r, counts)])])])

\* [r, stps, panic, refIdx]: the reader after the call, the entry returned,
\* whether indexing sps.ShortTermRefPicSets panicked, and the index used
\* (-1 when the entry list was not indexed)
parseShortTermRPS(rd, i, numSTRefPicSets, s) ==
    Bind([interRPSPredFlag \in {ReadFlagIf(i > 0, rd)} |->
        IF interRPSPredFlag.v
        THEN ParseInterRPS(interRPSPredFlag.r, i, numSTRefPicSets, s)
        ELSE ParseExplicitRPS(interRPSPredFlag.r)])

-----------------------------------------------------------------------------
(* parseVUI and parseBitstreamRestrictions *)

\* lines 327-338: [r, br]
parseBitstreamRestrictions(rd) ==
    Bind([f1 \in {ReadFlag(rd)} |->
    Bind([f2 \in {ReadFlag(f1.r)} |->
    Bind([f3 \in {ReadFlag(f2.r)} |->
    Bind([e1 \in {ReadExpGolomb(f3.r)} |->
    Bind([e2 \in {ReadExpGolomb(e1.r)} |->
    Bind([e3 \in {ReadExpGolomb(e2.r)} |->
    Bind([e4 \in {ReadExpGolomb(e3.r)} |->
    Bind([e5 \in {ReadExpGolomb(e4.r)} |->
        [r |-> e5.r,
         br |-> [TilesFixedStructureFlag |-> f1.v, MVOverPicBoundariesFlag |-> f2.v,
                 RestrictedRefsPicsListsFlag |-> f3.v,
                 MinSpatialSegmentationIDC |-> e1.v, MaxBytesPerPicDenom |-> e2.v,
                 MaxBitsPerMinCuDenom |-> e3.v, Log2MaxMvLengthHorizontal |-> e4.v,
                 Log2MaxMvLengthVertical |-> e5.v]]])])])])])])])])

\* lines 265-266
ReadExtendedSAR(rd, vui) ==
    Bind([w \in {Read(rd, 16)} |->
    Bind([h \in {Read(w.r, 16)} |->
        [r |-> h.r,
         vui |-> [vui EXCEPT !.SampleAspectRatioWidth = w.v,
                             !.SampleAspectRatioHeight = h.v]]])])

\* lines 268-272
LookupSAR(rd, vui, idc) ==
    Bind([sar \in {GetSARfromIDC(idc)} |->
        [r |-> SetErrorIf(sar.err # "nil", rd, sar.err),
         vui |-> [vui EXCEPT !.SampleAspectRatioWidth = sar.w,
                             !.SampleAspectRatioHeight = sar.h]]])

\* lines 263-273
ReadAspectRatio(rd, vui) ==
    Bind([aspectRatioIDC \in {Read(rd, 8)} |->
        IF aspectRatioIDC.v = ExtendedSAR
        THEN ReadExtendedSAR(aspectRatioIDC.r, vui)
        ELSE LookupSAR(aspectRatioIDC.r, vui, aspectRatioIDC.v)])

\* lines 261-274
ParseAspectRatio(rd, vui) ==
    Bind([aspectRatioInfoPresentFlag \in {ReadFlag(rd)} |->
        IF aspectRatioInfoPresentFlag.v
        THEN ReadAspectRatio(aspectRatioInfoPresentFlag.r, vui)
        ELSE [r |-> aspectRatioInfoPresentFlag.r, vui |-> vui]])

\* lines 275-289
ParseVideoSignal(rd, vui) ==
    Bind([ov \in {ReadFlag(rd)} |->
    Bind([oa \in {ReadFlagIf(ov.v, ov.r)} |->
    Bind([vs \in {ReadFlag(oa.r)} |->
    Bind([vf \in {ReadIf(vs.v, vs.r, 3)} |->
    Bind([fr \in {ReadFlagIf(vs.v, vf.r)} |->
    Bind([cd \in {ReadFlagIf(vs.v, fr.r)} |->
    Bind([cp \in {ReadIf(cd.v, cd.r, 8)} |->
    Bind([tc \in {ReadIf(cd.v, cp.r, 8)} |->
    Bind([mc \in {ReadIf(cd.v, tc.r, 8)} |->
        [r |-> mc.r,
         vui |-> [vui EXCEPT !.OverscanInfoPresentFlag = ov.v,
                             !.OverscanAppropriateFlag = oa.v,
                             !.VideoSignalTypePresentFlag = vs.v,
                             !.VideoFormat = Byte(vf.v),
                             !.VideoFullRangeFlag = fr.v,
                             !.ColourDescriptionFlag = cd.v,
                             !.ColourPrimaries = Byte(cp.v),
                             !.TransferCharacteristics = Byte(tc.v),
                             !.MatrixCoefficients = Byte(mc.v)]]])])])])])])])])])

\* lines 290-304
ParseChromaLocAndWindow(rd, vui) ==
    Bind([cl \in {ReadFlag(rd)} |->
    Bind([top \in {ReadExpGolombIf(cl.v, cl.r)} |->
    Bind([bot \in {ReadExpGolombIf(cl.v, top.r)} |->
    Bind([nc \in {ReadFlag(bot.r)} |->
    Bind([fs \in {ReadFlag(nc.r)} |->
    Bind([ff \in {ReadFlag(fs.r)} |->
    Bind([dw \in {ReadFlag(ff.r)} |->
    Bind([wl \in {ReadExpGolombIf(dw.v, dw.r)} |->
    Bind([wr \in {ReadExpGolombIf(dw.v, wl.r)} |->
    Bind([wt \in {ReadExpGolombIf(dw.v, wr.r)} |->
    Bind([wb \in {ReadExpGolombIf(dw.v, wt.r)} |->
        [r |-> wb.r,
         vui |-> [vui EXCEPT !.ChromaLocInfoPresentFlag = cl.v,
                             !.ChromaSampleLocTypeTopField = top.v,
                             !.ChromaSampleLocTypeBottomField = bot.v,
                             !.NeutralChromaIndicationFlag = nc.v,
                             !.FieldSeqFlag = fs.v,
                             !.FrameFieldInfoPresentFlag = ff.v,
                             !.DefaultDisplayWindowFlag = dw.v,
                             !.DefDispWinLeftOffset = wl.v,
                             !.DefDispWinRightOffset = wr.v,
                             !.DefDispWinTopOffset = wt.v,
                             !.DefDispWinBottomOffset = wb.v]]])])])])])])])])])])])

\* lines 305-318; hrd: the early return of line 316 is taken
ParseTimingInfo(rd, vui) ==
    Bind([ti \in {ReadFlag(rd)} |->
    Bind([nu \in {ReadIf(ti.v, ti.r, 32)} |->
    Bind([ts \in {ReadIf(ti.v, nu.r, 32)} |->
    Bind([pp \in {ReadFlagIf(ti.v, ts.r)} |->
    Bind([nt \in {ReadExpGolombIf(pp.v, pp.r)} |->
    Bind([hp \in {ReadFlagIf(ti.v, nt.r)} |->
        [r |-> hp.r,
         vui |-> [vui EXCEPT !.TimingInfoPresentFlag = ti.v,
                             !.NumUnitsInTick = nu.v,
                             !.TimeScale = ts.v,
                             !.PocProportionalToTimingFlag = pp.v,
                             !.NumTicksPocDiffOneMinus1 = nt.v,
                             !.HrdParametersPresentFlag = hp.v],
         hrd |-> hp.v]])])])])])])

\* lines 319-322
ParseRestrictions(rd, vui) ==
    Bind([bf \in {ReadFlag(rd)} |->
        IF ~bf.v THEN [r |-> bf.r, vui |-> vui]
        ELSE Bind([br \in {parseBitstreamRestrictions(bf.r)} |->
                 [r |-> br.r,
                  vui |-> [vui EXCEPT !.BitstreamRestrictionFlag = TRUE,
                                      !.BitstreamResctrictions = <<br.br>>]]])])

\* lines 259-325: [r, vui]
parseVUI(rd) ==
    Bind([ar \in {ParseAspectRatio(rd, NewVUIParameters)} |->
    Bind([vs \in {ParseVideoSignal(ar.r, ar.vui)} |->
    Bind([cw \in {ParseChromaLocAndWindow(vs.r, vs.vui)} |->
    Bind([ti \in {ParseTimingInfo(cw.r, cw.vui)} |->
        IF ti.hrd THEN [r |-> ti.r, vui |-> ti.vui]
        ELSE ParseRestrictions(ti.r, ti.vui)])])])])

-----------------------------------------------------------------------------
(* ParseSPSNALUnit, one operator per stretch of the function *)

\* line 156 with the test inverted
EarlyReturnInverted(s) == s.MaxSubLayersMinus1 = 0

\* line 218 with the check left out
StopOnErrorSkipped(rd) == FALSE

\* line 156: the decoder cannot go past ProfileTierLevel
EarlyReturn(s) == s.MaxSubLayersMinus1 # 0

\* line 218: the check after each short-term RPS entry
StopOnError(rd) == AccError(rd) # "nil"

\* lines 147-158
ReadHeaderFields(rd, s) ==
    Bind([vps \in {Read(rd, 4)} |->
    Bind([msl \in {Read(vps.r, 3)} |->
    Bind([tid \in {ReadFlag(msl.r)} |->
    Bind([gps \in {Read(tid.r, 2)} |->
    Bind([gtf \in {ReadFlag(gps.r)} |->
    Bind([gpi \in {Read(gtf.r, 5)} |->
    Bind([gpc \in {Read(gpi.r, 32)} |->
    Bind([gci \in {Read(gpc.r, 48)} |->
    Bind([gli \in {Read(gci.r, 8)} |->
    Bind([s1 \in {[s EXCEPT
             !.VpsID = Byte(vps.v),
             !.MaxSubLayersMinus1 = Byte(msl.v),
             !.TemporalIDNestingFlag = tid.v,
             !.ProfileTierLevel =
                 [GeneralProfileSpace |-> Byte(gps.v),
                  GeneralTierFlag |-> gtf.v,
                  GeneralProfileIDC |-> Byte(gpi.v),
                  GeneralProfileCompatibilityFlags |-> gpc.v,
                  GeneralConstraintIndicatorFlags |-> gci.v,
                  GeneralLevelIDC |-> Byte(gli.v)]]} |->
        [r |-> gli.r, s |-> s1,
         out |-> IF EarlyReturn(s1) THEN "early" ELSE "go"]])])])])])])])])])])

\* lines 142-158; out is "wrongtype" (line 145), "early" (line 157) or "go"
ParseHeader(rd, s) ==
    Bind([naluHdrBits \in {Read(rd, 16)} |->
        IF GetNaluType(Byte(naluHdrBits.v \div 256)) # NALU_SPS
        THEN [r |-> naluHdrBits.r, s |-> s, out |-> "wrongtype"]
        ELSE ReadHeaderFields(naluHdrBits.r, s)])

\* lines 159-177
ParseGeometry(rd, s) ==
    Bind([id \in {ReadExpGolomb(rd)} |->
    Bind([cf \in {ReadExpGolomb(id.r)} |->
    Bind([sc \in {ReadFlagIf(Byte(cf.v) = 3, cf.r)} |->
    Bind([w \in {ReadExpGolomb(sc.r)} |->
    Bind([h \in {ReadExpGolomb(w.r)} |->
    Bind([cw \in {ReadFlag(h.r)} |->
    Bind([lo \in {ReadExpGolombIf(cw.v, cw.r)} |->
    Bind([ro \in {ReadExpGolombIf(cw.v, lo.r)} |->
    Bind([to \in {ReadExpGolombIf(cw.v, ro.r)} |->
    Bind([bo \in {ReadExpGolombIf(cw.v, to.r)} |->
    Bind([bl \in {ReadExpGolomb(bo.r)} |->
    Bind([bc \in {ReadExpGolomb(bl.r)} |->
    Bind([lp \in {ReadExpGolomb(bc.r)} |->
        [r |-> lp.r,
         s |-> [s EXCEPT
             !.SpsID = Byte(id.v),
             !.ChromaFormatIDC = Byte(cf.v),
             !.SeparateColourPlaneFlag = sc.v,
             !.PicWidthInLumaSamples = ToU32(w.v),
             !.PicHeightInLumaSamples = ToU32(h.v),
             !.ConformanceWindowFlag = cw.v,
             !.ConformanceWindow =
                 [LeftOffset |-> ToU32(lo.v), RightOffset |-> ToU32(ro.v),
                  TopOffset |-> ToU32(to.v), BottomOffset |-> ToU32(bo.v)],
             !.BitDepthLumaMinus8 = Byte(bl.v),
             !.BitDepthChromaMinus8 = Byte(bc.v),
             !.Log2MaxPicOrderCntLsbMinus4 = Byte(lp.v)]]])])])])])])])])])])])])])

\* lines 183-191: the loop from i to last
RECURSIVE ReadSubLayerOrderingInfos(_, _, _, _)
ReadSubLayerOrderingInfos(rd, i, last, infos) ==
    IF i > last THEN [r |-> rd, infos |-> infos]
    ELSE Bind([a \in {ReadExpGolomb(rd)} |->
         Bind([b \in {ReadExpGolomb(a.r)} |->
         Bind([c \in {ReadExpGolomb(b.r)} |->
             ReadSubLayerOrderingInfos(c.r, i + 1, last,
                 Append(infos, [MaxDecPicBufferingMinus1 |-> Byte(a.v),
                                MaxNumReorderPics |-> Byte(b.v),
                                MaxLatencyIncreasePlus1 |-> Byte(c.v)]))])])])

\* lines 179-182
StartValue(present, maxSubLayersMinus1) == IF present THEN 0 ELSE maxSubLayersMinus1

\* lines 178-197
ParseOrderingAndBlocks(rd, s) ==
    Bind([pf \in {ReadFlag(rd)} |->
    Bind([inf \in {ReadSubLayerOrderingInfos(pf.r, StartValue(pf.v, s.MaxSubLayersMinus1),
             s.MaxSubLayersMinus1, s.SubLayeringOrderingInfos)} |->
    Bind([b1 \in {ReadExpGolomb(inf.r)} |->
    Bind([b2 \in {ReadExpGolomb(b1.r)} |->
    Bind([b3 \in {ReadExpGolomb(b2.r)} |->
    Bind([b4 \in {ReadExpGolomb(b3.r)} |->
    Bind([b5 \in {ReadExpGolomb(b4.r)} |->
    Bind([b6 \in {ReadExpGolomb(b5.r)} |->
        [r |-> b6.r,
         s |-> [s EXCEPT
             !.SubLayerOrderingInfoPresentFlag = pf.v,
             !.SubLayeringOrderingInfos = inf.infos,
             !.Log2MinLumaCodingBlockSizeMinus3 = Byte(b1.v),
             !.Log2DiffMaxMinLumaCodingBlockSize = Byte(b2.v),
             !.Log2MinLumaTransformBlockSizeMinus2 = Byte(b3.v),
             !.Log2DiffMaxMinLumaTransformBlockSize = Byte(b4.v),
             !.MaxTransformHierarchyDepthInter = Byte(b5.v),
             !.MaxTransformHierarchyDepthIntra = Byte(b6.v)]]])])])])])])])])

\* lines 198-204
ParseScalingList(rd, s) ==
    Bind([en \in {ReadFlag(rd)} |->
    Bind([pr \in {ReadFlagIf(en.v, en.r)} |->
        [r |-> readPastScalingListDataIf(pr.v, pr.r),
         s |-> [s EXCEPT !.ScalingListEnabledFlag = en.v,
                         !.ScalingListDataPresentFlag = pr.v]]])])

\* lines 205-215
ParsePCM(rd, s) ==
    Bind([amp \in {ReadFlag(rd)} |->
    Bind([sao \in {ReadFlag(amp.r)} |->
    Bind([pcm \in {ReadFlag(sao.r)} |->
    Bind([p1 \in {ReadIf(pcm.v, pcm.r, 4)} |->
    Bind([p2 \in {ReadIf(pcm.v, p1.r, 4)} |->
    Bind([p3 \in {ReadExpGolombIf(pcm.v, p2.r)} |->
    Bind([p4 \in {ReadExpGolombIf(pcm.v, p3.r)} |->
    Bind([p5 \in {ReadFlagIf(pcm.v, p4.r)} |->
    Bind([num \in {ReadExpGolomb(p5.r)} |->
        [r |-> num.r,
         s |-> [s EXCEPT
             !.AmpEnabledFlag = amp.v,
             !.SampleAdaptiveOffsetEnabledFlag = sao.v,
             !.PCMEnabledFlag = pcm.v,
             !.PcmSampleBitDepthLumaMinus1 = Byte(p1.v),
             !.PcmSampleBitDepthChromaMinus1 = Byte(p2.v),
             !.Log2MinPcmLumaCodingBlockSize = Uint16(p3.v),
             !.Log2DiffMaxMinPcmLumaCodingBlockSize = Uint16(p4.v),
             !.PcmLoopFilterDisabledFlag = p5.v,
             !.NumShortTermRefPicSets = Byte(num.v)]]])])])])])])])])])

\* lines 227-230: n iterations, each skipping lsbBits bits and one flag
RECURSIVE SkipLongTermRefPics(_, _, _)
SkipLongTermRefPics(rd, n, lsbBits) ==
    IF n = 0 THEN rd
    ELSE SkipLongTermRefPics(ReadFlag(Read(rd, lsbBits).r).r, n - 1, lsbBits)

\* lines 235-237
ReadVUI(rd, s) ==
    Bind([v \in {parseVUI(rd)} |-> [r |-> v.r, s |-> [s EXCEPT !.VUI = <<v.vui>>]]])

\* lines 223-239
ParseTail(rd, s) ==
    Bind([lt \in {ReadFlag(rd)} |->
    Bind([n \in {ReadExpGolombIf(lt.v, lt.r)} |->
    Bind([sk \in {SkipLongTermRefPics(n.r, n.v, Byte(s.Log2MaxPicOrderCntLsbMinus4 + 4))} |->
    Bind([mvp \in {ReadFlag(sk)} |->
    Bind([sis \in {ReadFlag(mvp.r)} |->
    Bind([vp \in {ReadFlag(sis.r)} |->
    Bind([s1 \in {[s EXCEPT !.LongTermRefPicsPresentFlag = lt.v,
                   !.SpsTemporalMvpEnabledFlag = mvp.v,
                   !.StrongIntraSmoothingEnabledFlag = sis.v,
                   !.VUIParametersPresentFlag = vp.v]} |->
        IF vp.v THEN ReadVUI(vp.r, s1) ELSE [r |-> vp.r, s |-> s1]])])])])])])])

-----------------------------------------------------------------------------
(* SPS.ImageSize *)

\* lines 249-250 left out: 4:2:2 handled as 4:4:4
SubWidthCWithout422(idc) == IF idc = 1 THEN 2 ELSE 1

\* lines 245-251
SubWidthC(idc) == IF idc = 1 \/ idc = 2 THEN 2 ELSE 1

SubHeightC(idc) == IF idc = 1 THEN 2 ELSE 1

ImageSize(s) ==
    [width |-> Sub32(s.PicWidthInLumaSamples,
                   Mul32(Add32(s.ConformanceWindow.LeftOffset,
                               s.ConformanceWindow.RightOffset),
                         SubWidthC(s.ChromaFormatIDC))),
     height |-> Sub32(s.PicHeightInLumaSamples,
                    Mul32(Add32(s.ConformanceWindow.TopOffset,
                                s.ConformanceWindow.BottomOffset),
                          SubHeightC(s.ChromaFormatIDC)))]

-----------------------------------------------------------------------------
(* Input bytes: the SPS syntax of ISO/IEC 23008-2 7.3.2.2 written out from *)
(* a description of its syntax elements, then cut to a number of bytes     *)

\* u(n): v in n bits, most significant first
RECURSIVE Bits(_, _)
Bits(v, n) == IF n = 0 THEN << >> ELSE Append(Bits(v \div 2, n - 1), v % 2)

Flag(b) == IF b THEN <<1>> ELSE <<0>>

RECURSIVE Log2Floor(_)
Log2Floor(v) == IF v < 2 THEN 0 ELSE 1 + Log2Floor(v \div 2)

\* ue(v): the unsigned Exp-Golomb code of v
EG(v) ==
    LET k == Log2Floor(v + 1) IN Bits(0, k) \o Bits(v + 1, k + 1)

\* ss[lo] \o ... \o ss[hi]
RECURSIVE ConcatRange(_, _, _)
ConcatRange(ss, lo, hi) ==
    IF lo > hi THEN << >>
    ELSE IF lo = hi THEN ss[lo]
    ELSE LET mid == (lo + hi) \div 2
         IN  ConcatRange(ss, lo, mid) \o ConcatRange(ss, mid + 1, hi)

Concat(ss) == ConcatRange(ss, 1, Len(ss))

\* the j-th (delta POC minus 1, used flag) pair of an explicit entry
EncPair(j) == EG(j % 3) \o Flag(j % 2 = 1)

\* inter RPS flag patterns: (used_by_curr_pic_flag, use_delta_flag) at j
PatUsed(pat, j) == pat = 0 \/ (pat = 2 /\ j % 3 = 0)

PatUseDelta(pat, j) == pat = 2 /\ j % 3 = 1

PatKeeps(pat, j) == PatUsed(pat, j) \/ PatUseDelta(pat, j)

EncInterFlags(pat, n) ==
    Concat([j \in 1..n |->
        IF PatUsed(pat, j) THEN <<1>> ELSE <<0>> \o Flag(PatUseDelta(pat, j))])

\* NumDeltaPocs of entry e by the syntax, prevN that of the entry before
DescNumDeltaPocs(e, prevN) ==
    IF e.inter THEN Cardinality({j \in 1..prevN : PatKeeps(e.pat, j)})
    ELSE e.neg + e.pos

RECURSIVE DescNumDeltaPocsAt(_, _)
DescNumDeltaPocsAt(rps, k) ==
    IF k = 0 THEN 0
    ELSE DescNumDeltaPocs(rps[k], DescNumDeltaPocsAt(rps, k - 1))

\* st_ref_pic_set(k - 1) of 7.3.7, inside the SPS
EncRPS(rps, k) ==
    LET e == rps[k]
    IN  (IF k > 1 THEN Flag(e.inter) ELSE << >>)
        \o (IF e.inter
            THEN <<0>> \o EG(0) \o EncInterFlags(e.pat, DescNumDeltaPocsAt(rps, k - 1))
            ELSE EG(e.neg) \o EG(e.pos)
                 \o Concat([j \in 1..e.neg |-> EncPair(j)])
                 \o Concat([j \in 1..e.pos |-> EncPair(j + 1)]))

\* scaling_list_data() of 7.3.4
EncScalingMatrix(sc, sizeId) ==
    IF ~sc.slPred[sizeId + 1] THEN <<0>> \o EG(sc.slDelta)
    ELSE <<1>> \o (IF sizeId > 1 THEN EG(sc.slDc) ELSE << >>)
         \o Concat([i \in 1..CoefNum(sizeId) |-> EG(sc.slCoef)])

EncScalingListData(sc) ==
    Concat([sizeId1 \in 1..4 |->
        Concat([m \in 1..NrMatrixIds(sizeId1 - 1) |->
            EncScalingMatrix(sc, sizeId1 - 1)])])

EncHeader(sc) ==
    Bits(sc.nalType * 2, 8) \o Bits(1, 8) \o Bits(sc.vps, 4) \o Bits(sc.maxSub, 3)
    \o <<1>> \o Bits(0, 2) \o <<0>> \o Bits(1, 5) \o Bits(6, 32) \o Bits(9, 48)
    \o Bits(93, 8)

EncGeometry(sc) ==
    (IF sc.badEG THEN Bits(0, MaxLeadingZeroBits + 1) \o <<1>> ELSE EG(sc.spsID))
    \o EG(sc.chroma) \o (IF sc.chroma = 3 THEN <<0>> ELSE << >>)
    \o EG(sc.width) \o EG(sc.height)
    \o Flag(sc.conf # << >>) \o Concat([i \in DOMAIN sc.conf |-> EG(sc.conf[i])])
    \o EG(0) \o EG(0) \o EG(sc.log2poc)

EncOrderingAndBlocks(sc) ==
    <<1>> \o Concat([i \in 1..(sc.maxSub + 1) |-> EG(4) \o EG(2) \o EG(0)])
    \o EG(0) \o EG(3) \o EG(0) \o EG(3) \o EG(1) \o EG(1)

EncScaling(sc) ==
    IF sc.scaling = 0 THEN <<0>>
    ELSE IF sc.scaling = 1 THEN <<1, 0>>
    ELSE <<1, 1>> \o EncScalingListData(sc)

EncPCM(sc) ==
    <<0, 1>> \o Flag(sc.pcm)
    \o (IF sc.pcm THEN Bits(7, 4) \o Bits(7, 4) \o EG(0) \o EG(2) \o <<1>> ELSE << >>)
    \o EG(Len(sc.rps))

EncRPSList(sc) == Concat([k \in 1..Len(sc.rps) |-> EncRPS(sc.rps, k)])

EncVUI(v) ==
    (IF v.sar < 0 THEN <<0>>
     ELSE <<1>> \o Bits(v.sar, 8)
          \o (IF v.sar = ExtendedSAR THEN Bits(40, 16) \o Bits(33, 16) ELSE << >>))
    \o <<0>>
    \o (IF v.colour THEN <<1>> \o Bits(5, 3) \o <<0, 1>> \o Bits(1, 8) \o Bits(1, 8)
                         \o Bits(1, 8)
        ELSE <<0>>)
    \o <<0>> \o <<0, 0, 0>> \o <<0>>
    \o (IF v.timing = 0 THEN <<0>>
        ELSE <<1>> \o Bits(1001, 32) \o Bits(60000, 32) \o <<1>> \o EG(0)
             \o Flag(v.timing = 2))
    \o (IF v.timing = 2 THEN << >>
        ELSE IF v.br THEN <<1, 0, 1, 0>> \o EG(0) \o EG(2) \o EG(1) \o EG(15) \o EG(15)
        ELSE <<0>>)

EncTail(sc) ==
    (IF sc.lt < 0 THEN <<0>>
     ELSE <<1>> \o EG(sc.lt)
          \o Concat([i \in 1..sc.lt |-> Bits(i, sc.log2poc + 4) \o <<1>>]))
    \o <<1, 1>>
    \o (IF sc.vui = << >> THEN <<0>> ELSE <<1>> \o EncVUI(sc.vui[1]))

\* bit offsets at which the syntax sections of sc end
EndOfHeader(sc) == Len(EncHeader(sc))

EndOfBlocks(sc) ==
    EndOfHeader(sc) + Len(EncGeometry(sc)) + Len(EncOrderingAndBlocks(sc))

EndOfScaling(sc) == EndOfBlocks(sc) + Len(EncScaling(sc))

EndOfPCM(sc) == EndOfScaling(sc) + Len(EncPCM(sc))

RECURSIVE EndOfRPS(_, _)
EndOfRPS(sc, k) ==
    IF k = 0 THEN EndOfPCM(sc) ELSE EndOfRPS(sc, k - 1) + Len(EncRPS(sc.rps, k))

\* rbsp_trailing_bits(): a 1 bit, then 0 bits up to the byte boundary
TrailingBits(n) == <<1>> \o Bits(0, (8 - ((n + 1) % 8)) % 8)

EncSPS(sc) ==
    LET body == EncHeader(sc) \o EncGeometry(sc) \o EncOrderingAndBlocks(sc)
                \o EncScaling(sc) \o EncPCM(sc) \o EncRPSList(sc) \o EncTail(sc)
    IN  body \o TrailingBits(Len(body))

NBytes(sc) == Len(EncSPS(sc)) \div 8

RECURSIVE BitSeqVal(_, _, _)
BitSeqVal(bits, from, n) ==
    IF n = 0 THEN 0 ELSE 2 * BitSeqVal(bits, from, n - 1) + bits[from + n]

\* the first nbytes bytes of the NAL unit
InputBytes(sc, nbytes) ==
    LET bits == EncSPS(sc)
    IN  [i \in 1..nbytes |-> BitSeqVal(bits, 8 * (i - 1), 8)]

-----------------------------------------------------------------------------
(* The inputs ParseSPSNALUnit is run on *)

MaxSub == 2        \* largest sps_max_sub_layers_minus1 written
MaxRPS == 3        \* most short-term RPS entries written
MaxPics == 2       \* largest in-range picture count written
MaxLongTerm == 2   \* most long-term reference pictures written

Expl(n, p) == [inter |-> FALSE, neg |-> n, pos |-> p, pat |-> 0]

Inter(pat) == [inter |-> TRUE, neg |-> 0, pos |-> 0, pat |-> pat]

ExplicitEntries ==
    {Expl(0, 0), Expl(1, 1), Expl(MaxPics, 0),
     Expl(maxSTRefPics + 1, 0), Expl(0, maxSTRefPics + 1), Expl(256, 1)}

InterEntries == {Inter(pat) : pat \in 0..2}

RECURSIVE RPSListsOfLen(_)
RPSListsOfLen(n) ==
    IF n = 0 THEN {<< >>}
    ELSE IF n = 1 THEN {<<e>> : e \in ExplicitEntries}
    ELSE {Append(l, e) : l \in RPSListsOfLen(n - 1),
                         e \in ExplicitEntries \cup InterEntries}

RPSLists == UNION {RPSListsOfLen(n) : n \in 0..MaxRPS}

VUIDesc(sar, colour, timing, br) ==
    [sar |-> sar, colour |-> colour, timing |-> timing, br |-> br]

Base ==
    [nalType |-> NALU_SPS, vps |-> 3, maxSub |-> 0, badEG |-> FALSE, spsID |-> 2,
     chroma |-> 1, width |-> 1920, height |-> 1088, conf |-> <<0, 0, 0, 4>>,
     log2poc |-> 4, scaling |-> 0, slPred |-> <<FALSE, FALSE, FALSE, FALSE>>,
     slDelta |-> 0, slDc |-> 0, slCoef |-> 0, pcm |-> FALSE, rps |-> << >>,
     lt |-> -1, vui |-> << >>]

Rich ==
    [Base EXCEPT !.pcm = TRUE, !.scaling = 1,
                 !.rps = <<Expl(1, 1), Inter(2), Expl(MaxPics, 0)>>,
                 !.lt = 2, !.vui = <<VUIDesc(ExtendedSAR, TRUE, 1, TRUE)>>]

Cuts(sc) == {[sc |-> sc, nbytes |-> k] : k \in 0..NBytes(sc)}

Whole(sc) == {[sc |-> sc, nbytes |-> NBytes(sc)]}

HeaderInputs ==
    UNION {Cuts([Base EXCEPT !.nalType = t, !.maxSub = m]) :
              t \in {NALU_SPS - 1, NALU_SPS, NALU_SPS + 1}, m \in 0..MaxSub}

GeometryInputs ==
    UNION {Whole([Base EXCEPT !.chroma = c, !.conf = w]) :
              c \in 0..3, w \in {<< >>, <<0, 0, 0, 4>>, <<1, 2, 3, 4>>}}
    \cup Cuts([Base EXCEPT !.badEG = TRUE])

ScalingInputs ==
    UNION {Whole([Base EXCEPT !.scaling = 2, !.slPred = p, !.slDc = c[1],
                              !.slCoef = c[2], !.slDelta = c[3]]) :
              p \in [1..4 -> BOOLEAN], c \in {<<0, 0, 0>>, <<2, 0, 1>>, <<0, 3, 0>>}}
    \cup Whole([Base EXCEPT !.scaling = 1])

RPSInputs ==
    UNION {Whole([Base EXCEPT !.rps = l]) : l \in RPSLists}

TailInputs ==
    UNION {Whole([Base EXCEPT !.lt = n]) : n \in 0..MaxLongTerm}
    \cup UNION {Whole([Base EXCEPT !.vui = <<VUIDesc(sar, c, ti, br)>>]) :
                   sar \in {-1, 0, 1, 16, 17, ExtendedSAR},
                   c \in BOOLEAN, ti \in 0..2, br \in BOOLEAN}
    \cup Cuts([Base EXCEPT !.vui = <<VUIDesc(17, TRUE, 1, TRUE)>>])

Inputs ==
    HeaderInputs \cup GeometryInputs \cup ScalingInputs \cup RPSInputs
    \cup TailInputs \cup Cuts(Rich)

\* what is recorded of an input: its description, its length in bytes and
\* the bit offsets at which its sections end
Scenario(in) ==
    [sc |-> in.sc, nbytes |-> in.nbytes, whole |-> in.nbytes = NBytes(in.sc),
     endHeader |-> EndOfHeader(in.sc), endBlocks |-> EndOfBlocks(in.sc),
     endScaling |-> EndOfScaling(in.sc),
     endRPS |-> [k \in 0..Len(in.sc.rps) |-> EndOfRPS(in.sc, k)]]

-----------------------------------------------------------------------------
(* ParseSPSNALUnit as a state machine *)

\* nothing returned yet; refIdx is the index line 377 used (-1: none)
NoReturn ==
    [sps |-> << >>, err |-> "nil", stps |-> << >>, size |-> << >>, refIdx |-> -1]

Init ==
    \E in \in Inputs :
        /\ r = NewReader(InputBytes(in.sc, in.nbytes))
        /\ sps = NewSPS
        /\ pc = "start"
        /\ idx = 0
        /\ numST = 0
        /\ ret = NoReturn
        /\ panicked = FALSE
        /\ scen = Scenario(in)

\* lines 136-158
Header ==
    /\ pc = "start"
    /\ LET x == ParseHeader(r, sps)
       IN  /\ r' = x.r
           /\ sps' = x.s
           /\ pc' = IF x.out = "go" THEN "geometry" ELSE "returned"
           /\ ret' = IF x.out = "wrongtype" THEN [ret EXCEPT !.err = "WrongUnitType"]
                     ELSE IF x.out = "early" THEN [ret EXCEPT !.sps = <<x.s>>]
                     ELSE ret
    /\ UNCHANGED <<idx, numST, panicked, scen>>

\* lines 159-177
Geometry ==
    /\ pc = "geometry"
    /\ LET x == ParseGeometry(r, sps)
       IN  r' = x.r /\ sps' = x.s
    /\ pc' = "blocks"
    /\ UNCHANGED <<idx, numST, ret, panicked, scen>>

\* lines 178-197
OrderingAndBlocks ==
    /\ pc = "blocks"
    /\ LET x == ParseOrderingAndBlocks(r, sps)
       IN  r' = x.r /\ sps' = x.s
    /\ pc' = "scaling"
    /\ UNCHANGED <<idx, numST, ret, panicked, scen>>

\* lines 198-204
ScalingList ==
    /\ pc = "scaling"
    /\ LET x == ParseScalingList(r, sps)
       IN  r' = x.r /\ sps' = x.s
    /\ pc' = "pcm"
    /\ UNCHANGED <<idx, numST, ret, panicked, scen>>

\* lines 205-216: up to the first test of the loop condition
PCM ==
    /\ pc = "pcm"
    /\ LET x == ParsePCM(r, sps)
       IN  /\ r' = x.r
           /\ sps' = x.s
           /\ pc' = IF 0 < x.s.NumShortTermRefPicSets THEN "strps" ELSE "tail"
    /\ idx' = 0
    /\ UNCHANGED <<numST, ret, panicked, scen>>

\* lines 216-221: one iteration of the loop
STRPSEntry ==
    /\ pc = "strps"
    /\ LET x == parseShortTermRPS(r, idx, sps.NumShortTermRefPicSets, sps)
           s1 == [sps EXCEPT !.ShortTermRefPicSets = Append(@, x.stps)]
       IN  IF x.panic
           THEN /\ panicked' = TRUE
                /\ pc' = "panicked"
                /\ UNCHANGED <<r, sps, idx, ret>>
           ELSE /\ r' = x.r
                /\ sps' = s1
                /\ panicked' = FALSE
                /\ IF StopOnError(x.r)
                   THEN /\ pc' = "returned"
                        /\ ret' = [ret EXCEPT !.sps = <<s1>>, !.err = AccError(x.r)]
                        /\ idx' = idx
                   ELSE /\ pc' = IF idx + 1 < sps.NumShortTermRefPicSets
                                 THEN "strps" ELSE "tail"
                        /\ ret' = ret
                        /\ idx' = idx + 1
    /\ UNCHANGED <<numST, scen>>

\* lines 223-239
TailFields ==
    /\ pc = "tail"
    /\ LET x == ParseTail(r, sps)
       IN  /\ r' = x.r
           /\ sps' = x.s
           /\ ret' = [ret EXCEPT !.sps = <<x.s>>, !.err = AccError(x.r)]
    /\ pc' = "returned"
    /\ UNCHANGED <<idx, numST, panicked, scen>>

Next ==
    \/ Header
    \/ Geometry
    \/ OrderingAndBlocks
    \/ ScalingList
    \/ PCM
    \/ STRPSEntry
    \/ TailFields

Spec == Init /\ [][Next]_vars

-----------------------------------------------------------------------------
(* parseShortTermRPS called on its own: from the SPS loop (idx below        *)
(* numSTRefPicSets) and from a slice header (idx == numSTRefPicSets)        *)

MaxDeltaIdx == 3   \* largest delta_idx_minus1 written

\* an entry decoded earlier, of which only NumDeltaPocs is looked at
Decoded(n) == [NewShortTermRPS EXCEPT !.NumDeltaPocs = n, !.NumNegativePics = n]

RECURSIVE DecodedLists(_)
DecodedLists(n) ==
    IF n = 0 THEN {<< >>}
    ELSE {Append(l, Decoded(c)) : l \in DecodedLists(n - 1), c \in {0, MaxPics}}

CallEntries ==
    {Expl(n, p) : n \in {0, 1, maxSTRefPics, maxSTRefPics + 1, 255, 256, 257},
                  p \in {0, 1}}
    \cup {Expl(0, p) : p \in {maxSTRefPics, maxSTRefPics + 1, 256}}
    \cup InterEntries

\* a call: the entries decoded so far, idx, numSTRefPicSets, the entry
\* written and the delta_idx_minus1 written before it in a slice header
RPSCalls ==
    {[prior |-> l, idx |-> Len(l), numST |-> Len(l) + d, e |-> e, deltaIdxMinus1 |-> m] :
        l \in UNION {DecodedLists(n) : n \in 0..MaxRPS}, d \in {0, 1},
        e \in CallEntries, m \in 0..MaxDeltaIdx}

\* a call as it can be written: no inter entry at idx 0, and a
\* delta_idx_minus1 only where the syntax has one
WrittenCalls ==
    {c \in RPSCalls :
        /\ c.e.inter => c.idx > 0
        /\ (c.deltaIdxMinus1 # 0) => (c.e.inter /\ c.idx = c.numST)}

\* NumDeltaPocs of the entry the syntax refers to (RefRpsIdx = idx - deltaIdx),
\* 0 when there is no such entry
RefNumDeltaPocs(c) ==
    IF c.idx - (c.deltaIdxMinus1 + 1) \in 0..(Len(c.prior) - 1)
    THEN c.prior[c.idx - c.deltaIdxMinus1].NumDeltaPocs
    ELSE 0

\* st_ref_pic_set(idx) of 7.3.7 as the call c finds it
EncRPSCall(c) ==
    (IF c.idx > 0 THEN Flag(c.e.inter) ELSE << >>)
    \o (IF c.e.inter
        THEN (IF c.idx = c.numST THEN EG(c.deltaIdxMinus1) ELSE << >>)
             \o <<0>> \o EG(0) \o EncInterFlags(c.e.pat, RefNumDeltaPocs(c))
        ELSE EG(c.e.neg) \o EG(c.e.pos)
             \o Concat([j \in 1..c.e.neg |-> EncPair(j)])
             \o Concat([j \in 1..c.e.pos |-> EncPair(j + 1)]))

\* the bits of a sequence as bytes, padded with a 1 bit and 0 bits
BytesOf(bits) ==
    Bind([padded \in {bits \o TrailingBits(Len(bits))} |->
        [i \in 1..(Len(padded) \div 8) |-> BitSeqVal(padded, 8 * (i - 1), 8)]])

InitRPS ==
    \E c \in WrittenCalls :
        /\ r = NewReader(BytesOf(EncRPSCall(c)))
        /\ sps = [NewSPS EXCEPT !.NumShortTermRefPicSets = c.numST,
                                 !.ShortTermRefPicSets = c.prior]
        /\ pc = "call"
        /\ idx = c.idx
        /\ numST = c.numST
        /\ ret = NoReturn
        /\ panicked = FALSE
        /\ scen = [c EXCEPT !.prior = Len(c.prior)] @@ [end |-> Len(EncRPSCall(c))]

\* lines 356-411: one call
RPSCall ==
    /\ pc = "call"
    /\ \E x \in {parseShortTermRPS(r, idx, numST, sps)} :
           /\ r' = x.r
           /\ panicked' = x.panic
           /\ pc' = IF x.panic THEN "panicked" ELSE "returned"
           /\ ret' = [ret EXCEPT !.stps = IF x.panic THEN << >> ELSE <<x.stps>>,
                                 !.err = AccError(x.r),
                                 !.refIdx = x.refIdx]
    /\ UNCHANGED <<sps, idx, numST, scen>>

NextRPS == RPSCall

SpecRPS == InitRPS /\ [][NextRPS]_vars

-----------------------------------------------------------------------------
(* SPS.ImageSize called on its own *)

\* uint32 values written as [hi, lo]: small ones, and ones near 2^32
U32Values ==
    {ToU32(0), ToU32(1), ToU32(4), ToU32(1080), ToU32(1088), ToU32(1920),
     [hi |-> 65535, lo |-> 65535], [hi |-> 32768, lo |-> 0]}

Offsets == {ToU32(0), ToU32(1), ToU32(4), [hi |-> 65535, lo |-> 65535]}

ImageRecords ==
    {[NewSPS EXCEPT !.ChromaFormatIDC = c,
                    !.PicWidthInLumaSamples = w, !.PicHeightInLumaSamples = h,
                    !.ConformanceWindowFlag = TRUE,
                    !.ConformanceWindow = [LeftOffset |-> o[1], RightOffset |-> o[2],
                                           TopOffset |-> o[3], BottomOffset |-> o[4]]] :
        c \in 0..3, w \in {ToU32(0), ToU32(1920), [hi |-> 65535, lo |-> 65535]},
        h \in {ToU32(1), ToU32(1088), [hi |-> 32768, lo |-> 0]},
        o \in {q \in [1..4 -> Offsets] : q[1] = q[3] \/ q[2] = q[4]}}

InitImg ==
    \E rec \in ImageRecords :
        /\ r = NewReader(<< >>)
        /\ sps = rec
        /\ pc = "call"
        /\ idx = 0
        /\ numST = 0
        /\ ret = NoReturn
        /\ panicked = FALSE
        /\ scen = [rec |-> rec]

\* lines 243-255: one call
ImageSizeCall ==
    /\ pc = "call"
    /\ ret' = [ret EXCEPT !.size = <<ImageSize(sps)>>]
    /\ pc' = "returned"
    /\ UNCHANGED <<r, sps, idx, numST, panicked, scen>>

NextImg == ImageSizeCall

SpecImg == InitImg /\ [][NextImg]_vars

-----------------------------------------------------------------------------
(* Properties of parseShortTermRPS called on its own (SpecRPS) *)

\* the delta index the call works with: read in a slice header, 1 otherwise
WrittenDeltaIdx == IF idx = numST THEN scen.deltaIdxMinus1 + 1 ELSE 1

\* C1: in the explicit branch, every written numNegativePics or
\* numPositivePics above 16 (256 and above included) latches
\* TooManyReferencePictures and leaves DeltaPocS0 and DeltaPocS1 empty.
C1_CountsAbove16Rejected ==
    (/\ pc = "returned"
     /\ ~scen.e.inter
     /\ (scen.e.neg > maxSTRefPics \/ scen.e.pos > maxSTRefPics))
    => /\ ret.err = "TooManyReferencePictures"
       /\ ret.stps[1].DeltaPocS0 = << >>
       /\ ret.stps[1].DeltaPocS1 = << >>

\* C2: a call that takes the inter-prediction branch with deltaIdx > idx
\* fails with Malformed and indexes sps.ShortTermRefPicSets only inside the
\* entries 0..idx-1: it does not panic and dereferences no other entry.
C2_DeltaIdxAboveIdxFailsSafely ==
    (/\ pc # "call"
     /\ scen.e.inter
     /\ WrittenDeltaIdx > idx)
    => /\ ret.err = "Malformed"
       /\ ~panicked
       /\ ret.refIdx < idx

-----------------------------------------------------------------------------
(* Properties of ParseSPSNALUnit (Spec) *)

Entries == sps.ShortTermRefPicSets

InRange(e) == e.NumNegativePics <= maxSTRefPics /\ e.NumPositivePics <= maxSTRefPics

\* C3: if any read of ParseSPSNALUnit failed, the status returned is not
\* nil; nil is returned only if no error was ever latched on the cursor.
C3_FailedReadGivesNonNilStatus ==
    (pc = "returned" /\ r.err # "nil") => ret.err # "nil"

\* the fields of s after ProfileTierLevel are at their zero values
NothingAfterProfileTierLevel(s) ==
    s = [NewSPS EXCEPT !.VpsID = s.VpsID,
                       !.MaxSubLayersMinus1 = s.MaxSubLayersMinus1,
                       !.TemporalIDNestingFlag = s.TemporalIDNestingFlag,
                       !.ProfileTierLevel = s.ProfileTierLevel]

\* C4: once a non-zero maxSubLayersMinus1 is decoded, ParseSPSNALUnit has
\* returned the record with nil status, the cursor is not past the end of
\* ProfileTierLevel (at it when the input reaches that far), and every field
\* after ProfileTierLevel is at its zero value.
C4_StopsAfterProfileTierLevel ==
    (sps.MaxSubLayersMinus1 # 0)
    => /\ pc = "returned"
       /\ ret.sps = <<sps>>
       /\ ret.err = "nil"
       /\ r.pos <= scen.endHeader
       /\ (8 * scen.nbytes >= scen.endHeader) => (r.pos = scen.endHeader)
       /\ NothingAfterProfileTierLevel(sps)

\* a whole NAL unit with maxSubLayersMinus1 = 2 was cut short after
\* ProfileTierLevel, with more of the input left unread
C4_Witness ==
    /\ pc = "returned"
    /\ sps.MaxSubLayersMinus1 = 2
    /\ scen.whole
    /\ r.pos = scen.endHeader
    /\ 8 * scen.nbytes > scen.endHeader
    /\ ret.err = "nil"

\* C5: after readPastScalingListData the cursor's bit offset is the end of
\* the scaling-list structure.
C5_SkipEndsAtEndOfScalingList ==
    (pc = "pcm" /\ scen.sc.scaling = 2 /\ scen.whole /\ r.err = "nil")
    => r.pos = scen.endScaling

\* the fields of s after the short-term RPS section are at their zero values
NothingAfterShortTermRPS(s) ==
    /\ ~s.LongTermRefPicsPresentFlag
    /\ ~s.SpsTemporalMvpEnabledFlag
    /\ ~s.StrongIntraSmoothingEnabledFlag
    /\ ~s.VUIParametersPresentFlag
    /\ s.VUI = << >>

\* one iteration of the loop: entry idx is appended after entries 0..idx-1,
\* and a set cursor status ends the decode there
LoopStep ==
    /\ Len(Entries) = idx
    /\ Len(sps'.ShortTermRefPicSets) = idx + 1
    /\ SubSeq(sps'.ShortTermRefPicSets, 1, idx) = Entries
    /\ (r'.err # "nil")
       => /\ pc' = "returned"
          /\ ret'.sps = <<sps'>>
          /\ ret'.err = r'.err
          /\ NothingAfterShortTermRPS(sps')
    /\ (r'.err = "nil") => (idx' = idx + 1 /\ pc' \in {"strps", "tail"})

\* C6: the loop decodes and appends entries in increasing index order; as
\* soon as the cursor status is set after entry k, the record built so far
\* is returned with that error, nothing is decoded after it (no step leaves
\* a returned decode) and no field after the short-term RPS section is set.
C6_LoopStopsAtFirstError ==
    [][/\ (pc = "strps" /\ ~panicked') => LoopStep
       /\ pc # "returned"]_vars

\* the decode stopped at an out-of-range entry with entries still to come
C6_Witness ==
    /\ pc = "returned"
    /\ ret.err = "TooManyReferencePictures"
    /\ Len(Entries) >= 2
    /\ Len(Entries) < sps.NumShortTermRefPicSets
    /\ r.pos < scen.endRPS[Len(scen.sc.rps)]

\* C7: the status ParseSPSNALUnit returns with a record is the first error
\* latched on the cursor (the latch keeps the first error, so that is the
\* cursor's status at the return).
C7_ReturnedStatusIsFirstError ==
    (pc = "returned" /\ ret.sps # << >>) => ret.err = r.err

ReadAsWritten(k) ==
    /\ k <= Len(scen.sc.rps)
    /\ scen.sc.scaling # 2
    /\ ~scen.sc.badEG
    /\ 8 * scen.nbytes >= scen.endRPS[k]
    /\ \A j \in 1..(k - 1) :
           scen.sc.rps[j].neg <= maxSTRefPics /\ scen.sc.rps[j].pos <= maxSTRefPics

\* C10: in ParseSPSNALUnit an inter-predicted entry at index idx > 0 refers
\* to entry idx-1: it reads NumDeltaPocs(idx-1) usedByCurrPicFlag bits (and a
\* useDeltaFlag bit after each false one), so the cursor ends where the
\* entry ends; its NumDeltaPocs is the number of positions kept, at most
\* NumDeltaPocs(idx-1); its lists are empty and its picture counts 0.
C10_InterEntryRefersToPrevious ==
    \A k \in 2..Len(Entries) :
        (ReadAsWritten(k) /\ scen.sc.rps[k].inter)
        => /\ Entries[k].NumDeltaPocs =
                  Cardinality({j \in 1..Entries[k - 1].NumDeltaPocs :
                                   PatKeeps(scen.sc.rps[k].pat, j)})
           /\ Entries[k].NumDeltaPocs <= Entries[k - 1].NumDeltaPocs
           /\ Entries[k].DeltaPocS0 = << >> /\ Entries[k].DeltaPocS1 = << >>
           /\ Entries[k].UsedByCurrPicS0 = << >> /\ Entries[k].UsedByCurrPicS1 = << >>
           /\ Entries[k].NumNegativePics = 0 /\ Entries[k].NumPositivePics = 0
           /\ (k = Len(Entries) /\ pc \in {"strps", "tail"})
              => r.pos = scen.endRPS[k]

\* an inter entry kept one of the two delta POCs of the entry before it
C10_Witness ==
    /\ pc = "returned"
    /\ ret.err = "nil"
    /\ \E k \in 2..Len(Entries) :
           /\ ReadAsWritten(k)
           /\ scen.sc.rps[k].inter
           /\ Entries[k - 1].NumDeltaPocs = 2
           /\ Entries[k].NumDeltaPocs = 1

-----------------------------------------------------------------------------
(* Properties of SPS.ImageSize called on its own (SpecImg) *)

\* C8: ImageSize returns width = PicWidthInLumaSamples - (LeftOffset +
\* RightOffset) * subWidthC and height = PicHeightInLumaSamples - (TopOffset
\* + BottomOffset) * subHeightC modulo 2^32, with (subWidthC, subHeightC) =
\* (2,2) for ChromaFormatIDC 1, (2,1) for 2 and (1,1) otherwise; 1920x1088
\* with IDC 1 and offsets 0,0,0,4 gives 1920x1080; the record is unchanged.
C8_ImageSizeFormula ==
    (pc = "returned")
    => LET s == scen.rec
           cw == s.ConformanceWindow
           subWidthC == CASE s.ChromaFormatIDC = 1 -> 2
                          [] s.ChromaFormatIDC = 2 -> 2
                          [] OTHER -> 1
           subHeightC == CASE s.ChromaFormatIDC = 1 -> 2
                           [] s.ChromaFormatIDC = 2 -> 1
                           [] OTHER -> 1
           size == ret.size[1]
       IN  /\ size.width = Sub32(s.PicWidthInLumaSamples,
                                 Mul32(Add32(cw.LeftOffset, cw.RightOffset), subWidthC))
           /\ size.height = Sub32(s.PicHeightInLumaSamples,
                                  Mul32(Add32(cw.TopOffset, cw.BottomOffset), subHeightC))
           /\ Add32(size.width, Mul32(Add32(cw.LeftOffset, cw.RightOffset), subWidthC))
                  = s.PicWidthInLumaSamples
           /\ (/\ s.ChromaFormatIDC = 1
               /\ s.PicWidthInLumaSamples = ToU32(1920)
               /\ s.PicHeightInLumaSamples = ToU32(1088)
               /\ cw = [LeftOffset |-> ToU32(0), RightOffset |-> ToU32(0),
                        TopOffset |-> ToU32(0), BottomOffset |-> ToU32(4)])
              => size = [width |-> ToU32(1920), height |-> ToU32(1080)]
           /\ sps = s

\* the 4:2:2 case with a non-zero horizontal crop, wrapping below zero:
\* 0 - (1 + 0) * 2 = 2^32 - 2
C8_Witness ==
    /\ pc = "returned"
    /\ scen.rec.ChromaFormatIDC = 2
    /\ scen.rec.PicWidthInLumaSamples = ToU32(0)
    /\ scen.rec.ConformanceWindow.LeftOffset = ToU32(1)
    /\ scen.rec.ConformanceWindow.RightOffset = ToU32(0)
    /\ ret.size[1].width = [hi |-> 65535, lo |-> 65534]

=============================================================================
